---- MODULE Spec2Model ----
(***************************************************************************)
(* Kaijasper Crypto Portfolio Manager (src/app.py).                        *)
(*                                                                         *)
(* Three specifications over one set of variables:                         *)
(*   Spec       the database handlers run one at a time on the shared      *)
(*              sqlite3 connection (add_token, delete_token, the watchlist *)
(*              buttons, display_portfolio), each statement able to fail   *)
(*              with sqlite3.Error;                                        *)
(*   SpecPrice  fetch_price with its TTL cache, the clock and the three    *)
(*              price sources;                                             *)
(*   SpecConc   two sessions running add_token statement by statement on   *)
(*              the shared connection and cursor.                          *)
(*                                                                         *)
(* None of Python is <<>> : fetchone() gives <<>> or the row <<quantity>>, *)
(* a price source gives <<>> or <<price>> (the dict {"price": price}).     *)
(* The transaction record's date column (datetime.now()) is not modelled.  *)
(* The cache follows cachetools.TTLCache: an item set at timer value t is  *)
(* in the cache while timer() < t + ttl.  The source file indents with     *)
(* U+00A0; it is read here as if indented with spaces.                     *)
(***************************************************************************)
EXTENDS Integers, Sequences, FiniteSets, TLC

VARIABLES
    conn,           \* "open" | "none": what the cached init_db() returned
    portfolio,      \* rows of table portfolio as the shared connection sees them
    transactions,   \* rows of table transactions as the shared connection sees them
    watchlist,      \* table watchlist as the shared connection sees it: token -> number of rows
    disk,           \* the committed tables: what conn.commit() last made durable
    msg,            \* what the last handler run showed: "success" | "error" | "none"
    raised,         \* the exception that left the last handler run, or "none"
    adds,           \* add_token calls made so far
    faults,         \* database calls made to fail so far
    now,            \* the cache's timer, in seconds
    ticks,          \* clock advances so far
    cache,          \* TTLCache: token id -> <<>> or <<[value, expires]>>
    obtained,       \* token id -> <<>> or <<[value, at]>>: the last price a source gave
    call,           \* the last fetch_price call
    pc,             \* session -> position inside add_token
    args,           \* session -> its add_token call: arguments, the quantity held
                    \*   when it was entered, and how it ended
    existing,       \* session -> its local variable existing
    cursor          \* the result rows the shared cursor c holds

dbvars    == <<conn, portfolio, transactions, watchlist, disk>>
opvars    == <<msg, raised, adds, faults>>
pricevars == <<now, ticks, cache, obtained, call>>
concvars  == <<pc, args, existing, cursor>>
vars      == <<conn, portfolio, transactions, watchlist, disk, msg, raised, adds, faults,
               now, ticks, cache, obtained, call, pc, args, existing, cursor>>

----------------------------------------------------------------------------
(* Bounds of the model *)

MaxAdds == 2
MaxFaults == 1
MaxTicks == 2
MaxCalls == 3

(* Program constants *)

TTL == 300

\* two of the thirty entries of TOKENS: display name -> token id of the price APIs
TOKENS == [BONK |-> "bonk", Dogecoin |-> "dogecoin"]
Tokens == DOMAIN TOKENS
TokenIds == {TOKENS[t] : t \in Tokens}

\* the inputs the handlers are run with: tokens of TOKENS, quantities the number
\* input lets through (> 0), prices fetch_price can give (truthy)
Quantities == {1, 2}
Prices == {1, 2}

None == <<>>

----------------------------------------------------------------------------
(* The SQL statements of the handlers, on a table held as a sequence of rows *)

Tables(p, t, w) == [portfolio |-> p, transactions |-> t, watchlist |-> w]

View == Tables(portfolio, transactions, watchlist)

\* SELECT quantity FROM portfolio WHERE token = ?
SelectQuantity(tbl, token) ==
    LET hit == SelectSeq(tbl, LAMBDA r : r.token = token)
    IN  [i \in DOMAIN hit |-> <<hit[i].quantity>>]

\* c.fetchone(): the next row of the result, or None
fetchone(rows) == IF rows = <<>> THEN None ELSE Head(rows)

\* token TEXT PRIMARY KEY of table portfolio: an INSERT of a token that has a row fails
PortfolioKeyTaken(tbl, token) == \E i \in DOMAIN tbl : tbl[i].token = token

\* a watchlist table created without its PRIMARY KEY
NoWatchlistKey(tbl, token) == FALSE

\* token TEXT PRIMARY KEY of table watchlist
WatchlistKeyTaken(tbl, token) == tbl[token] > 0

\* INSERT INTO watchlist (token) VALUES (?)
InsertWatchlist(tbl, token) == [tbl EXCEPT ![token] = @ + 1]

\* an add that overwrites the quantity held instead of adding to it
OverwriteQuantity(old, quantity) == quantity

new_quantity(old, quantity) == old + quantity

new_value(quantity, price) == quantity * price

\* UPDATE portfolio SET quantity = ?, value = ? WHERE token = ?
UpdatePortfolio(tbl, token, quantity, value) ==
    [i \in DOMAIN tbl |->
        IF tbl[i].token = token
        THEN [token |-> token, quantity |-> quantity, value |-> value]
        ELSE tbl[i]]

\* INSERT INTO portfolio (token, quantity, value) VALUES (?, ?, ?)
InsertPortfolio(tbl, token, quantity, value) ==
    Append(tbl, [token |-> token, quantity |-> quantity, value |-> value])

\* INSERT INTO transactions (token, date, type, quantity, price, total_value)
InsertTransaction(tbl, token, quantity, price, total_value) ==
    Append(tbl, [id |-> Len(tbl) + 1, token |-> token, type |-> "Buy",
                 quantity |-> quantity, price |-> price, total_value |-> total_value])

\* DELETE FROM portfolio WHERE token = ?
DeletePortfolio(tbl, token) == SelectSeq(tbl, LAMBDA r : r.token # token)

\* DELETE FROM watchlist WHERE token = ?
DeleteWatchlist(tbl, token) == [tbl EXCEPT ![token] = 0]

----------------------------------------------------------------------------
(* The handlers.  Each gives [tables, commit, msg, raised]: the tables the  *)
(* connection sees afterwards, whether conn.commit() ran, the st.success /  *)
(* st.error message shown, and the exception that left the handler.         *)
(* fault = n makes the n-th database call of the handler raise sqlite3.Error *)
(* (0: none fails); the calls operators give the number of database calls    *)
(* the handler gets to make when none is made to fail.                       *)

Outcome(tables, commit, shown, exc) ==
    [tables |-> tables, commit |-> commit, msg |-> shown, raised |-> exc]

\* add_token(c, conn, token, quantity, price)
\* calls: 1 SELECT, 2 UPDATE or INSERT portfolio, 3 INSERT transactions, 4 commit
add_token(v, cn, token, quantity, price, fault) ==
    LET row == fetchone(SelectQuantity(v.portfolio, token))
        upd == UpdatePortfolio(v.portfolio, token, new_quantity(row[1], quantity),
                               new_value(new_quantity(row[1], quantity), price))
        ins == InsertPortfolio(v.portfolio, token, quantity, new_value(quantity, price))
        log == InsertTransaction(v.transactions, token, quantity, price,
                                 new_value(quantity, price))
    IN  IF cn = "none" THEN Outcome(v, FALSE, "none", "AttributeError")
        ELSE IF fault = 1 THEN Outcome(v, FALSE, "error", "none")
        ELSE IF row # None
        THEN IF fault = 2 THEN Outcome(v, FALSE, "error", "none")
             \* total_value is bound only in the else branch: building the
             \* arguments of the INSERT INTO transactions raises
             ELSE Outcome(Tables(upd, v.transactions, v.watchlist), FALSE,
                          "none", "UnboundLocalError")
        ELSE IF fault = 2 \/ PortfolioKeyTaken(v.portfolio, token)
             THEN Outcome(v, FALSE, "error", "none")
        ELSE IF fault = 3
             THEN Outcome(Tables(ins, v.transactions, v.watchlist), FALSE, "error", "none")
        ELSE IF fault = 4
             THEN Outcome(Tables(ins, log, v.watchlist), FALSE, "error", "none")
        ELSE Outcome(Tables(ins, log, v.watchlist), TRUE, "success", "none")

\* with a row for the token the handler raises before its third call; on a
\* connection that is None it makes no call at all
add_token_calls(v, cn, token) ==
    IF cn = "none" THEN 0
    ELSE IF fetchone(SelectQuantity(v.portfolio, token)) # None THEN 2 ELSE 4

\* a delete_token that also deletes the token's transaction records
delete_token_and_log(v, cn, token, fault) ==
    IF cn = "none" \/ fault # 0 THEN Outcome(v, FALSE, "error", "none")
    ELSE Outcome(Tables(DeletePortfolio(v.portfolio, token),
                        SelectSeq(v.transactions, LAMBDA r : r.token # token),
                        v.watchlist), TRUE, "success", "none")

\* remove_token_button() with "Remove Token" pressed, and the delete_token it calls
\* calls: 1 SELECT token FROM portfolio (outside any try), 2 DELETE, 3 commit
delete_token(v, cn, token, fault) ==
    LET del == DeletePortfolio(v.portfolio, token)
    IN  IF cn = "none" THEN Outcome(v, FALSE, "none", "AttributeError")
        ELSE IF fault = 1 THEN Outcome(v, FALSE, "none", "sqlite3.Error")
        ELSE IF fault = 2 THEN Outcome(v, FALSE, "error", "none")
        ELSE IF fault = 3
             THEN Outcome(Tables(del, v.transactions, v.watchlist), FALSE, "error", "none")
        ELSE Outcome(Tables(del, v.transactions, v.watchlist), TRUE, "success", "none")

\* manage_watchlist() with "Add to Watchlist" pressed
\* calls: 1 SELECT token FROM watchlist (outside any try), 2 INSERT, 3 commit
watchlist_add(v, cn, token, fault) ==
    LET ins == InsertWatchlist(v.watchlist, token)
    IN  IF cn = "none" THEN Outcome(v, FALSE, "none", "AttributeError")
        ELSE IF fault = 1 THEN Outcome(v, FALSE, "none", "sqlite3.Error")
        ELSE IF fault = 2 \/ WatchlistKeyTaken(v.watchlist, token)
             THEN Outcome(v, FALSE, "error", "none")
        ELSE IF fault = 3
             THEN Outcome(Tables(v.portfolio, v.transactions, ins), FALSE, "error", "none")
        ELSE Outcome(Tables(v.portfolio, v.transactions, ins), TRUE, "success", "none")

\* the INSERT of a token that has a row fails by itself, before the commit
watchlist_add_calls(v, cn, token) ==
    IF cn = "none" THEN 0 ELSE IF WatchlistKeyTaken(v.watchlist, token) THEN 2 ELSE 3

\* delete_token, the watchlist removal (3 calls) and display_portfolio (1 call)
handler_calls(cn, n) == IF cn = "none" THEN 0 ELSE n

\* manage_watchlist() with "Remove from Watchlist" pressed
\* calls: 1 SELECT token FROM watchlist (outside any try), 2 DELETE, 3 commit
watchlist_remove(v, cn, token, fault) ==
    LET del == DeleteWatchlist(v.watchlist, token)
    IN  IF cn = "none" THEN Outcome(v, FALSE, "none", "AttributeError")
        ELSE IF fault = 1 THEN Outcome(v, FALSE, "none", "sqlite3.Error")
        ELSE IF fault = 2 THEN Outcome(v, FALSE, "error", "none")
        ELSE IF fault = 3
             THEN Outcome(Tables(v.portfolio, v.transactions, del), FALSE, "error", "none")
        ELSE Outcome(Tables(v.portfolio, v.transactions, del), TRUE, "success", "none")

\* display_portfolio(): calls: 1 SELECT token, quantity, value FROM portfolio
display_portfolio(v, cn, fault) ==
    IF cn = "none" THEN Outcome(v, FALSE, "none", "AttributeError")
    ELSE IF fault = 1 THEN Outcome(v, FALSE, "none", "sqlite3.Error")
    ELSE Outcome(v, FALSE, "none", "none")

----------------------------------------------------------------------------
(* Spec: the handlers as actions *)

NoRows == [k \in Tokens |-> 0]

EmptyCall == [token |-> "", start |-> 0, end |-> 0, prev |-> None, hit |-> FALSE,
              queried |-> <<>>, ret |-> None, caught |-> "none"]

Sessions == {1, 2}

NoCall == [token |-> "", quantity |-> 0, price |-> 0, old |-> None, result |-> "none"]

\* init_db() has run (display_portfolio() at import calls it first, and
\* st.cache_resource keeps what it returned): the three tables exist and are
\* empty, or sqlite3.Error was caught and (None, None) is what every handler gets
Init ==
    /\ conn \in {"open", "none"}
    /\ portfolio = <<>>
    /\ transactions = <<>>
    /\ watchlist = NoRows
    /\ disk = Tables(<<>>, <<>>, NoRows)
    /\ msg = "none"
    /\ raised = "none"
    /\ adds = 0
    /\ faults = 0
    /\ now = 0
    /\ ticks = 0
    /\ cache = [k \in TokenIds |-> None]
    /\ obtained = [k \in TokenIds |-> None]
    /\ call = EmptyCall
    /\ pc = [s \in Sessions |-> "idle"]
    /\ args = [s \in Sessions |-> NoCall]
    /\ existing = [s \in Sessions |-> None]
    /\ cursor = <<>>

\* the state after a handler run with outcome o
Apply(o, fault) ==
    /\ fault # 0 => faults < MaxFaults
    /\ faults' = IF fault # 0 THEN faults + 1 ELSE faults
    /\ portfolio' = o.tables.portfolio
    /\ transactions' = o.tables.transactions
    /\ watchlist' = o.tables.watchlist
    /\ disk' = IF o.commit THEN o.tables ELSE disk
    /\ msg' = o.msg
    /\ raised' = o.raised
    /\ UNCHANGED conn

\* add_token_form() submitted: quantity > 0 and fetch_price gave a price
AddToken(token, quantity, price, fault) ==
    /\ adds < MaxAdds
    /\ fault <= add_token_calls(View, conn, token)
    /\ adds' = adds + 1
    /\ Apply(add_token(View, conn, token, quantity, price, fault), fault)
    /\ UNCHANGED <<pricevars, concvars>>

\* the select box of remove_token_button() offers the tokens that have a row
RemoveToken(token, fault) ==
    /\ conn = "open" => PortfolioKeyTaken(portfolio, token)
    /\ fault <= handler_calls(conn, 3)
    /\ Apply(delete_token(View, conn, token, fault), fault)
    /\ UNCHANGED <<adds, pricevars, concvars>>

WatchlistAdd(token, fault) ==
    /\ fault <= watchlist_add_calls(View, conn, token)
    /\ Apply(watchlist_add(View, conn, token, fault), fault)
    /\ UNCHANGED <<adds, pricevars, concvars>>

\* the select box offers the tokens on the watchlist
WatchlistRemove(token, fault) ==
    /\ conn = "open" => WatchlistKeyTaken(watchlist, token)
    /\ fault <= handler_calls(conn, 3)
    /\ Apply(watchlist_remove(View, conn, token, fault), fault)
    /\ UNCHANGED <<adds, pricevars, concvars>>

DisplayPortfolio(fault) ==
    /\ fault <= handler_calls(conn, 1)
    /\ Apply(display_portfolio(View, conn, fault), fault)
    /\ UNCHANGED <<adds, pricevars, concvars>>

Next ==
    \/ \E token \in Tokens, quantity \in Quantities, price \in Prices, fault \in 0..4 :
           AddToken(token, quantity, price, fault)
    \/ \E token \in Tokens, fault \in 0..3 : RemoveToken(token, fault)
    \/ \E token \in Tokens, fault \in 0..3 : WatchlistAdd(token, fault)
    \/ \E token \in Tokens, fault \in 0..3 : WatchlistRemove(token, fault)
    \/ \E fault \in 0..1 : DisplayPortfolio(fault)

Spec == Init /\ [][Next]_vars

----------------------------------------------------------------------------
(* fetch_price: the three sources, the TTL cache, the fallback chain *)

Sources == <<"Coingecko", "CryptoCompare", "LiveCoinWatch">>

\* what a source's HTTP call can come to: requests raises RequestException
\* (connection error, HTTP status via raise_for_status), reading the body raises
\* something else (a body that is not the JSON object expected), or the body is
\* read and the price field is absent (None), 0, or a price
Responses ==
    {[kind |-> "RequestException", usd |-> None], [kind |-> "Exception", usd |-> None]}
        \cup {[kind |-> "json", usd |-> u] : u \in {None, <<0>>} \cup {<<p>> : p \in Prices}}

\* fetch_price_coingecko / fetch_price_cryptocompare / fetch_price_livecoinwatch:
\* {"price": price} if price else None; RequestException is caught and gives
\* None; any other exception leaves the function
fetch_price_source(name, resp) ==
    IF resp.kind = "RequestException" THEN [source |-> name, ret |-> None, raised |-> FALSE]
    ELSE IF resp.kind = "Exception" THEN [source |-> name, ret |-> None, raised |-> TRUE]
    ELSE IF resp.usd # None /\ resp.usd[1] # 0
         THEN [source |-> name, ret |-> resp.usd, raised |-> FALSE]
         ELSE [source |-> name, ret |-> None, raised |-> FALSE]

\* key in cache, at timer value t
CacheContains(c, key, t) == c[key] # None /\ t < c[key][1].expires

\* cache[key] = value, at timer value t: expired items are dropped, then the
\* item is stored to expire ttl later (30 token ids never fill maxsize=100)
CacheSet(c, key, value, t) ==
    [k \in DOMAIN c |->
        IF k = key THEN <<[value |-> value, expires |-> t + TTL]>>
        ELSE IF CacheContains(c, k, t) THEN c[k] ELSE None]

\* a chain that goes on to the next source whatever the last one gave
always_next(price) == TRUE

\* the test "if not price" before CryptoCompare and before LiveCoinWatch
not_price(price) == price = None

\* a cache test that ignores the expiry time
CacheHitForever(c, key, t) == c[key] # None

\* the test "if token_id in cache" of fetch_price
cache_hit(c, key, t) == CacheContains(c, key, t)

\* the clock advances the cache's timer between calls
Deltas == {1, TTL - 1, TTL}

Tick(dt) ==
    /\ ticks < MaxTicks
    /\ ticks' = ticks + 1
    /\ now' = now + dt
    /\ UNCHANGED <<cache, obtained, call, dbvars, opvars, concvars>>

\* fetch_price returns: the call took dt seconds, asked the sources in queried,
\* returns ret, and stores ret in the cache if store
Return(token_id, dt, hit, queried, ret, caught, store) ==
    /\ dt # 0 => ticks < MaxTicks
    /\ ticks' = IF dt # 0 THEN ticks + 1 ELSE ticks
    /\ now' = now + dt
    /\ cache' = IF store THEN CacheSet(cache, token_id, ret, now + dt) ELSE cache
    /\ obtained' = IF queried # <<>> /\ ret # None
                   THEN [obtained EXCEPT ![token_id] = <<[value |-> ret, at |-> now + dt]>>]
                   ELSE obtained
    /\ call' = [token |-> token_id, start |-> now, end |-> now + dt,
                prev |-> obtained[token_id], hit |-> hit,
                queried |-> queried, ret |-> ret, caught |-> caught]
    /\ UNCHANGED <<dbvars, opvars, concvars>>

\* lines 283-293: a price is cached and returned, no price is returned uncached;
\* an exception that left a source was caught by the except Exception (295-299)
Finish(token_id, dt, queried) ==
    LET got == queried[Len(queried)]
    IN  IF got.raised
        THEN Return(token_id, dt, FALSE, queried, None, "Exception", FALSE)
        ELSE Return(token_id, dt, FALSE, queried, got.ret, "none", got.ret # None)

\* fetch_price(token_id) finding the token in the cache: the test is made at
\* now and cache[token_id] is read dt later; an item that expired in between
\* gives KeyError, caught by the except Exception
FetchPriceHit(token_id, dt) ==
    /\ cache_hit(cache, token_id, now)
    /\ IF CacheContains(cache, token_id, now + dt)
       THEN Return(token_id, dt, TRUE, <<>>, cache[token_id][1].value, "none", FALSE)
       ELSE Return(token_id, dt, TRUE, <<>>, None, "KeyError", FALSE)

\* fetch_price(token_id) not finding the token in the cache: Coingecko, then
\* CryptoCompare "if not price", then LiveCoinWatch "if not price"; each source
\* asked gives one of Responses
FetchPriceMiss(token_id, dt) ==
    /\ ~cache_hit(cache, token_id, now)
    /\ \E r1 \in Responses :
          LET a == fetch_price_source(Sources[1], r1)
          IN  IF a.raised \/ ~not_price(a.ret)
              THEN Finish(token_id, dt, <<a>>)
              ELSE \E r2 \in Responses :
                      LET b == fetch_price_source(Sources[2], r2)
                      IN  IF b.raised \/ ~not_price(b.ret)
                          THEN Finish(token_id, dt, <<a, b>>)
                          ELSE \E r3 \in Responses :
                                  Finish(token_id, dt,
                                         <<a, b, fetch_price_source(Sources[3], r3)>>)

NextPrice ==
    \/ \E dt \in Deltas : Tick(dt)
    \/ \E token_id \in TokenIds, dt \in {0, 1} : FetchPriceHit(token_id, dt)
    \/ \E token_id \in TokenIds, dt \in {0, 1} : FetchPriceMiss(token_id, dt)

SpecPrice == Init /\ [][NextPrice]_vars

----------------------------------------------------------------------------
(* SpecConc: add_token run by two sessions.  Streamlit runs each session's    *)
(* script in its own thread; init_db is a cache_resource, so the sessions     *)
(* share conn and c (check_same_thread=False).  One action per database call  *)
(* of add_token; what follows a call inside the function runs with it.        *)

\* add_token is entered and c.execute("SELECT quantity ...") runs: the shared
\* cursor now holds this result
ExecSelect(s, token, quantity, price) ==
    /\ conn = "open"
    /\ pc[s] = "idle"
    /\ adds < MaxCalls
    /\ adds' = adds + 1
    /\ args' = [args EXCEPT ![s] = [token |-> token, quantity |-> quantity,
                                    price |-> price,
                                    old |-> fetchone(SelectQuantity(portfolio, token)),
                                    result |-> "running"]]
    /\ cursor' = SelectQuantity(portfolio, token)
    /\ pc' = [pc EXCEPT ![s] = "fetch"]
    /\ UNCHANGED <<dbvars, msg, raised, faults, pricevars, existing>>

\* existing = c.fetchone(): the next row of whatever the shared cursor holds
FetchOne(s) ==
    /\ pc[s] = "fetch"
    /\ existing' = [existing EXCEPT ![s] = fetchone(cursor)]
    /\ cursor' = IF cursor = <<>> THEN cursor ELSE Tail(cursor)
    /\ pc' = [pc EXCEPT ![s] = "write"]
    /\ UNCHANGED <<dbvars, opvars, pricevars, args>>

\* if existing: the UPDATE with existing[0] + quantity, then UnboundLocalError
\* on total_value
WriteUpdate(s) ==
    /\ pc[s] = "write"
    /\ existing[s] # None
    /\ portfolio' = UpdatePortfolio(portfolio, args[s].token,
                                    new_quantity(existing[s][1], args[s].quantity),
                                    new_value(new_quantity(existing[s][1], args[s].quantity),
                                              args[s].price))
    /\ cursor' = <<>>
    /\ args' = [args EXCEPT ![s].result = "UnboundLocalError"]
    /\ pc' = [pc EXCEPT ![s] = "idle"]
    /\ UNCHANGED <<conn, transactions, watchlist, disk, opvars, pricevars, existing>>

\* else: the INSERT, refused with sqlite3.IntegrityError (caught, st.error) if
\* the token has a row by now
WriteInsert(s) ==
    /\ pc[s] = "write"
    /\ existing[s] = None
    /\ IF PortfolioKeyTaken(portfolio, args[s].token)
       THEN /\ args' = [args EXCEPT ![s].result = "error"]
            /\ pc' = [pc EXCEPT ![s] = "idle"]
            /\ UNCHANGED portfolio
       ELSE /\ portfolio' = InsertPortfolio(portfolio, args[s].token, args[s].quantity,
                                            new_value(args[s].quantity, args[s].price))
            /\ pc' = [pc EXCEPT ![s] = "log"]
            /\ UNCHANGED args
    /\ cursor' = <<>>
    /\ UNCHANGED <<conn, transactions, watchlist, disk, opvars, pricevars, existing>>

\* the INSERT INTO transactions
LogBuy(s) ==
    /\ pc[s] = "log"
    /\ transactions' = InsertTransaction(transactions, args[s].token, args[s].quantity,
                                         args[s].price,
                                         new_value(args[s].quantity, args[s].price))
    /\ cursor' = <<>>
    /\ pc' = [pc EXCEPT ![s] = "commit"]
    /\ UNCHANGED <<conn, portfolio, watchlist, disk, opvars, pricevars, args, existing>>

\* conn.commit(): everything pending on the shared connection becomes durable
Commit(s) ==
    /\ pc[s] = "commit"
    /\ disk' = View
    /\ args' = [args EXCEPT ![s].result = "success"]
    /\ pc' = [pc EXCEPT ![s] = "idle"]
    /\ UNCHANGED <<conn, portfolio, transactions, watchlist, opvars, pricevars,
                   existing, cursor>>

NextConc ==
    \/ \E s \in Sessions, token \in Tokens, quantity \in Quantities, price \in Prices :
           ExecSelect(s, token, quantity, price)
    \/ \E s \in Sessions : FetchOne(s)
    \/ \E s \in Sessions : WriteUpdate(s)
    \/ \E s \in Sessions : WriteInsert(s)
    \/ \E s \in Sessions : LogBuy(s)
    \/ \E s \in Sessions : Commit(s)

SpecConc == Init /\ [][NextConc]_vars

----------------------------------------------------------------------------
(* The rows of a table that carry a token, for the properties below *)

Rows(tbl, token) == {i \in DOMAIN tbl : tbl[i].token = token}

Holding(tbl, token) == {tbl[i] : i \in Rows(tbl, token)}

----------------------------------------------------------------------------
(* Properties of fetch_price, under SpecPrice *)

MissCall == call.token # "" /\ ~call.hit

\* C2: on a cache miss the sources are asked in the order Coingecko,
\* CryptoCompare, LiveCoinWatch; a source is asked only if every source before
\* it gave no price, none is asked after one gave a price, and the value
\* returned is the price of the first source that gave one.
FallbackOrder ==
    MissCall =>
        /\ Len(call.queried) \in 1..3
        /\ \A i \in DOMAIN call.queried :
              /\ call.queried[i].source = Sources[i]
              /\ i < Len(call.queried) => call.queried[i].ret = None
              /\ call.queried[i].ret # None => call.ret = call.queried[i].ret

\* Coingecko and CryptoCompare gave no price and the price returned is
\* LiveCoinWatch's
ThirdSourceAnswered ==
    /\ MissCall
    /\ Len(call.queried) = 3
    /\ call.ret # None
    /\ call.ret = call.queried[3].ret

EverySourceTried ==
    MissCall =>
        /\ \A i \in 1..2 :
              (i <= Len(call.queried) /\ call.queried[i].ret = None) =>
                  Len(call.queried) > i
        /\ call.ret = None => Len(call.queried) = 3

----------------------------------------------------------------------------
(* Properties of concurrent sessions, under SpecConc *)

\* C10: no update is lost between sessions.  When the two sessions have each
\* finished an add_token for the same token, each entered while the token was
\* held with the same quantity old, the token is held with old + q1 + q2.
NoLostUpdate ==
    \A s, t \in Sessions :
        (/\ s # t
         /\ pc[s] = "idle" /\ pc[t] = "idle"
         /\ args[s].token # "" /\ args[s].token = args[t].token
         /\ args[s].old # None /\ args[s].old = args[t].old) =>
            \A h \in Holding(portfolio, args[s].token) :
                h.quantity = args[s].old[1] + args[s].quantity + args[t].quantity

----------------------------------------------------------------------------
(* Properties of the database handlers, under Spec *)

IsPrefix(s, t) == Len(s) <= Len(t) /\ \A i \in DOMAIN s : t[i] = s[i]

BuyRecord(n, token, quantity, price) ==
    [id |-> n, token |-> token, type |-> "Buy", quantity |-> quantity,
     price |-> price, total_value |-> quantity * price]

\* C1: add_token is an upsert.  Whenever add_token(token, quantity, price) runs
\* on an open connection and its SELECT and its portfolio statement do not fail,
\* the token's holding afterwards is the one row {token, old + quantity,
\* (old + quantity) * price} if the token was held with quantity old, and the one
\* row {token, quantity, quantity * price} if it was not held.
UpsertArithmetic ==
    [][\A token \in Tokens, quantity \in Quantities, price \in Prices, fault \in {0, 3, 4} :
          (conn = "open" /\ AddToken(token, quantity, price, fault)) =>
              /\ Holding(portfolio, token) = {} =>
                    Holding(portfolio', token) =
                        {[token |-> token, quantity |-> quantity,
                          value |-> quantity * price]}
              /\ \A h \in Holding(portfolio, token) :
                    Holding(portfolio', token) =
                        {[token |-> token, quantity |-> h.quantity + quantity,
                          value |-> (h.quantity + quantity) * price]}]_vars

\* a holding of quantity 3 at price 2: a token held was added to
UpsertOfHeldToken ==
    \E i \in DOMAIN portfolio : portfolio[i].quantity = 3 /\ portfolio[i].value = 6

\* C4: the transaction log is append-only.  Every step of every handler keeps
\* each transaction record that existed, with the same fields at the same place,
\* in what the connection sees and in what is committed.
TransactionsAppendOnly ==
    [][/\ IsPrefix(transactions, transactions')
       /\ IsPrefix(disk.transactions, disk'.transactions)]_vars

\* delete_token has committed the removal of a holding whose transaction
\* record is still in the log
DeletedHoldingKeepsLog ==
    /\ msg = "success"
    /\ \E i \in DOMAIN disk.transactions :
           /\ Rows(disk.portfolio, disk.transactions[i].token) = {}
           /\ Rows(portfolio, transactions[i].token) = {}

\* C5: token symbols are unique keys.  In every reachable state, seen by the
\* connection or committed, no token has two portfolio rows or two watchlist
\* rows; and adding a token that is on the watchlist leaves the watchlist as
\* it was.
UniqueKeys ==
    \A token \in Tokens :
        /\ Cardinality(Rows(portfolio, token)) <= 1
        /\ Cardinality(Rows(disk.portfolio, token)) <= 1
        /\ watchlist[token] <= 1
        /\ disk.watchlist[token] <= 1

TokenKeysUnique ==
    /\ []UniqueKeys
    /\ [][\A token \in Tokens, fault \in 0..3 :
             (WatchlistAdd(token, fault) /\ watchlist[token] >= 1) =>
                 watchlist' = watchlist]_vars

\* the INSERT of a token already on the watchlist was refused (no call was made
\* to fail, so the error shown is the key's)
DuplicateWatchRefused ==
    /\ faults = 0
    /\ msg = "error"
    /\ \E token \in Tokens : watchlist[token] = 1

\* C6: database errors are caught per call.  No sqlite3.Error leaves a handler,
\* and a handler whose write or commit failed shows an error and no success.
DbErrorsCaught ==
    /\ [](raised # "sqlite3.Error")
    /\ [][/\ \A token \in Tokens, quantity \in Quantities, price \in Prices,
                fault \in 2..4 :
                  (conn = "open" /\ AddToken(token, quantity, price, fault)) =>
                      msg' = "error"
          /\ \A token \in Tokens, fault \in 2..3 :
                  (conn = "open" /\ (\/ RemoveToken(token, fault)
                                     \/ WatchlistAdd(token, fault)
                                     \/ WatchlistRemove(token, fault))) =>
                      msg' = "error"]_vars

\* C7: every add_token call completes without raising and appends exactly one
\* "Buy" record {token, quantity, price, quantity * price}.  (With it, the log
\* has as many records as adds were made.)  Stated for the calls in which no
\* database call fails.
EveryAddLogsOneBuy ==
    [][\A token \in Tokens, quantity \in Quantities, price \in Prices :
          (conn = "open" /\ AddToken(token, quantity, price, 0)) =>
              /\ raised' = "none"
              /\ transactions' =
                    Append(transactions,
                           BuyRecord(Len(transactions) + 1, token, quantity, price))]_vars

\* C9: add_token is all-or-nothing.  Whenever a commit makes a new or changed
\* holding durable, it makes a transaction record of that token durable with it.
HoldingPersistsWithItsRecord ==
    [][\A token \in Tokens :
          (/\ Holding(disk'.portfolio, token) # {}
           /\ Holding(disk'.portfolio, token) # Holding(disk.portfolio, token)) =>
              Cardinality(Rows(disk'.transactions, token)) >
                  Cardinality(Rows(disk.transactions, token))]_vars

====
